---- MODULE Spec2Model ----
(***************************************************************************)
(* Model of src/src/client.ts: the MCP chat client.                        *)
(*                                                                         *)
(* main() connects to every configured server in turn, runs the           *)
(* interactive chat loop and finally closes the MCP client and exits.      *)
(* Every `await` of the source is a point where the environment answers   *)
(* (a result or a rejection), so every action below runs the code from     *)
(* one await to the next.  JavaScript strings are sequences of one-        *)
(* character strings, so that toLowerCase, JSON.parse, JSON.stringify and  *)
(* Array.join are computed rather than assumed.                            *)
(***************************************************************************)
EXTENDS Integers, Sequences, FiniteSets, TLC

\* ------------------------------------------------------------------ bounds
MaxServers == 2

MaxToolCalls == 2

\* ------------------------------------------------------- string constants
QuitStr == <<"q", "u", "i", "t">>

NewLine == <<"\n">>

EmptyStr == <<>>

CallingPrefix ==
    <<"[", "C", "a", "l", "l", "i", "n", "g", " ", "t", "o", "o", "l", " ">>

WithArgs == <<" ", "w", "i", "t", "h", " ", "a", "r", "g", "s", " ">>

CallingSuffix == <<"]">>

\* ------------------------------------------------- JavaScript primitives
\* String.prototype.toLowerCase on one character (the letters the inputs use).
LowerChar(c) ==
    CASE c = "Q" -> "q"
      [] c = "U" -> "u"
      [] c = "I" -> "i"
      [] c = "T" -> "t"
      [] c = "S" -> "s"
      [] c = "H" -> "h"
      [] OTHER -> c

IdentityLower(s) == s

ToLowerCase(s) == [i \in 1..Len(s) |-> LowerChar(s[i])]

RECURSIVE JoinNoSeparator(_, _)
JoinNoSeparator(arr, sep) ==
    IF Len(arr) = 0 THEN EmptyStr
    ELSE arr[1] \o JoinNoSeparator(Tail(arr), sep)

\* Array.prototype.join(sep) on an array of strings.
RECURSIVE Join(_, _)
Join(arr, sep) ==
    IF Len(arr) = 0 THEN EmptyStr
    ELSE IF Len(arr) = 1 THEN arr[1]
    ELSE arr[1] \o sep \o Join(Tail(arr), sep)

\* JSON.stringify of a string value: quoted, with quote and backslash escaped.
EscapeChar(c) ==
    CASE c = "\"" -> <<"\\", "\"">>
      [] c = "\\" -> <<"\\", "\\">>
      [] c = "\n" -> <<"\\", "n">>
      [] OTHER -> <<c>>

RECURSIVE EscapeAll(_)
EscapeAll(s) ==
    IF s = <<>> THEN <<>> ELSE EscapeChar(Head(s)) \o EscapeAll(Tail(s))

JSONStringify(s) == <<"\"">> \o EscapeAll(s) \o <<"\"">>

\* `x || ""` on a nullable string.
Null == [isNull |-> TRUE, text |-> EmptyStr]

Some(s) == [isNull |-> FALSE, text |-> s]

OrEmpty(c) == IF c.isNull \/ c.text = EmptyStr THEN EmptyStr ELSE c.text

\* ------------------------------------------------------------ JSON.parse
\* A parsed JSON value: kind is "object", "number" or "string"; members is the
\* object's <<key, value>> pairs in insertion order (a repeated key keeps its
\* first position and takes the last value, as JSON.parse does).
JNumber(t) == [kind |-> "number", text |-> t, members |-> <<>>]

JString(t) == [kind |-> "string", text |-> t, members |-> <<>>]

JObject(m) == [kind |-> "object", text |-> EmptyStr, members |-> m]

ParseFail == [ok |-> FALSE, val |-> JString(EmptyStr), next |-> 0]

ParseOk(v, n) == [ok |-> TRUE, val |-> v, next |-> n]

Digits == {"0", "1", "2", "3", "4", "5", "6", "7", "8", "9"}

RECURSIVE SkipWs(_, _)
SkipWs(s, i) == IF i <= Len(s) /\ s[i] = " " THEN SkipWs(s, i + 1) ELSE i

\* The characters of a string literal from position i (after the opening quote).
RECURSIVE ScanString(_, _, _)
ScanString(s, i, acc) ==
    IF i > Len(s) THEN ParseFail
    ELSE IF s[i] = "\"" THEN ParseOk(JString(acc), i + 1)
    ELSE IF s[i] = "\n" THEN ParseFail
    ELSE IF s[i] = "\\" THEN
        IF i + 1 <= Len(s) /\ s[i + 1] \in {"\"", "\\"}
        THEN ScanString(s, i + 2, Append(acc, s[i + 1]))
        ELSE ParseFail
    ELSE ScanString(s, i + 1, Append(acc, s[i]))

RECURSIVE ScanDigits(_, _, _)
ScanDigits(s, i, acc) ==
    IF i <= Len(s) /\ s[i] \in Digits
    THEN ScanDigits(s, i + 1, Append(acc, s[i]))
    ELSE ParseOk(JNumber(acc), i)

ParseNumber(s, i) ==
    IF s[i] = "0" THEN ParseOk(JNumber(<<"0">>), i + 1)
    ELSE ScanDigits(s, i, <<>>)

\* Set key k of the member list m to v.
PutMember(m, k, v) ==
    IF \E j \in 1..Len(m) : m[j][1] = k
    THEN [j \in 1..Len(m) |-> IF m[j][1] = k THEN <<k, v>> ELSE m[j]]
    ELSE Append(m, <<k, v>>)

RECURSIVE ParseValue(_, _)
RECURSIVE ParseMembers(_, _, _)
ParseValue(s, i0) ==
    LET i == SkipWs(s, i0) IN
    IF i > Len(s) THEN ParseFail
    ELSE IF s[i] = "{" THEN
        LET j == SkipWs(s, i + 1) IN
        IF j <= Len(s) /\ s[j] = "}" THEN ParseOk(JObject(<<>>), j + 1)
        ELSE ParseMembers(s, j, <<>>)
    ELSE IF s[i] = "\"" THEN ScanString(s, i + 1, <<>>)
    ELSE IF s[i] \in Digits THEN ParseNumber(s, i)
    ELSE ParseFail

\* The members of an object from position i0 (a key is expected there).
ParseMembers(s, i0, acc) ==
    LET i == SkipWs(s, i0) IN
    IF i > Len(s) \/ s[i] # "\"" THEN ParseFail
    ELSE
        LET key == ScanString(s, i + 1, <<>>) IN
        IF ~key.ok THEN ParseFail
        ELSE
            LET c == SkipWs(s, key.next) IN
            IF c > Len(s) \/ s[c] # ":" THEN ParseFail
            ELSE
                LET v == ParseValue(s, c + 1) IN
                IF ~v.ok THEN ParseFail
                ELSE
                    LET e == SkipWs(s, v.next)
                        m == PutMember(acc, key.val.text, v.val)
                    IN
                    IF e > Len(s) THEN ParseFail
                    ELSE IF s[e] = "}" THEN ParseOk(JObject(m), e + 1)
                    ELSE IF s[e] = "," THEN ParseMembers(s, e + 1, m)
                    ELSE ParseFail

JSONParseOrEmpty(s) ==
    LET v == ParseValue(s, 1) IN
    IF v.ok /\ SkipWs(s, v.next) = Len(s) + 1
    THEN v ELSE ParseOk(JObject(<<>>), Len(s) + 1)

\* JSON.parse(s): ok is FALSE where JSON.parse throws a SyntaxError.
JSONParse(s) ==
    LET v == ParseValue(s, 1) IN
    IF v.ok /\ SkipWs(s, v.next) = Len(s) + 1 THEN v ELSE ParseFail

\* ------------------------------------------------------------- the inputs
\* Tool lists a server may report from listTools (name, inputSchema.required).
EchoName == <<"e", "c", "h", "o">>

AddName == <<"a", "d", "d">>

EchoRemote == [name |-> EchoName, required |-> <<"msg">>]

AddRemote == [name |-> AddName, required |-> <<"a", "b">>]

ToolLists == {<<>>, <<EchoRemote>>, <<EchoRemote, AddRemote>>}

\* Argument strings of a tool call: {"a":1}  {}  {"a":1  (the last is cut short).
ArgsObj == <<"{", "\"", "a", "\"", ":", "1", "}">>

ArgsEmpty == <<"{", "}">>

ArgsBad == <<"{", "\"", "a", "\"", ":", "1">>

\* The function parts of tool calls: two well-formed calls and a malformed one.
FunctionCalls ==
    { [name |-> EchoName, arguments |-> ArgsObj],
      [name |-> AddName, arguments |-> ArgsEmpty],
      [name |-> EchoName, arguments |-> ArgsBad] }

\* The tool_calls arrays of at most MaxToolCalls entries; ids are unique in a
\* response, the entry at position i carries id i.
ToolCallArrays ==
    UNION {[1..n -> FunctionCalls] : n \in 0..MaxToolCalls}

WithIds(arr) == [i \in 1..Len(arr) |-> [id |-> i, function |-> arr[i]]]

Contents == {Null, Some(<<"o", "k">>)}

\* message of choices[0]: tool_calls is absent (present = FALSE) or an array.
Responses ==
    {[content |-> c, tool_calls |-> [present |-> FALSE, calls |-> <<>>]] :
        c \in Contents}
    \cup
    {[content |-> c, tool_calls |-> [present |-> TRUE, calls |-> WithIds(a)]] :
        c \in Contents, a \in ToolCallArrays}

NoResponse ==
    [content |-> Null, tool_calls |-> [present |-> FALSE, calls |-> <<>>]]

ToolResults == {<<"r", "1">>, <<"r", "2">>}

Lines ==
    { <<"q", "u", "i", "t">>, <<"Q", "U", "I", "T">>, <<"Q", "u", "i", "t">>,
      <<"q", "u", "i", "t", "s">>, <<"h", "i">> }

\* -------------------------------------------------------------- the state
VARIABLES
    servers,      \* number of entries of mcpServers.mcpServers, in iteration order
    pc,           \* where main is suspended
    idx,          \* the server entry the for loop of main is at
    tools,        \* MCPClient.tools
    connectLog,   \* the calls and returns of connectToServer, in order
    reported,     \* the tool lists listTools resolved with, in order
    pending,      \* servers whose un-awaited mcp.connect() has not settled
    unhandled,    \* the rejected promises nobody awaits or catches
    line,         \* the line rl.question returned last
    response,     \* processQuery: response.choices[0].message
    messages,     \* processQuery: messages
    finalText,    \* processQuery: finalText
    completions,  \* chat.completions.create calls of the current query
    resolved,     \* how many of them have resolved
    toolCalls,    \* mcp.callTool calls of the current query
    answered,     \* processQuery returned for the current query
    answer,       \* the string it returned
    result,       \* processQuery: result.content of the callTool result
    secondResponse, \* processQuery: secondResponse.choices[0].message.content
    thrown,       \* the error thrown inside the current chatLoop iteration
    loopEnd,      \* how the run left the loop: none, quit, error, startup
    nCleanup,     \* calls of MCPClient.cleanup
    exitCode      \* the process exit status, -1 while it runs

vars ==
    << servers, pc, idx, tools, connectLog, reported, pending, unhandled, line,
       response, messages, finalText, completions, resolved, toolCalls,
       answered, answer, result, secondResponse, thrown, loopEnd, nCleanup,
       exitCode >>

startupVars == << servers, idx, tools, connectLog, reported >>

queryVars ==
    << line, response, messages, finalText, completions, resolved, toolCalls,
       answered, answer, result, secondResponse, thrown >>

Init ==
    /\ servers \in 0..MaxServers
    /\ pc = "start"
    /\ idx = 0
    /\ tools = <<>>
    /\ connectLog = <<>>
    /\ reported = <<>>
    /\ pending = {}
    /\ unhandled = {}
    /\ line = EmptyStr
    /\ response = NoResponse
    /\ messages = <<>>
    /\ finalText = <<>>
    /\ completions = <<>>
    /\ resolved = 0
    /\ toolCalls = <<>>
    /\ answered = FALSE
    /\ answer = EmptyStr
    /\ result = EmptyStr
    /\ secondResponse = Null
    /\ thrown = "none"
    /\ loopEnd = "none"
    /\ nCleanup = 0
    /\ exitCode = -1

\* ------------------------------------------------------ connectToServer
\* The entry pushed to this.tools for a remote tool.
ToTool(t) ==
    [ type |-> "function", name |-> t.name, parameters |-> t,
      strict |-> TRUE, required |-> <<>> ]

ReplaceAll(ts, new) == new

\* this.tools.push(...tools)
PushAll(ts, new) == ts \o new

\* main's finally block up to its await: cleanup() is called, mcp.close() runs.
MainFinally ==
    /\ nCleanup' = nCleanup + 1
    /\ pc' = "closing"

\* main enters its try block: the first connectToServer, or chatLoop at once.
MainStart ==
    /\ pc = "start"
    /\ IF servers = 0
       THEN /\ pc' = "read"
            /\ UNCHANGED << idx, connectLog, pending >>
       ELSE /\ idx' = 1
            /\ connectLog' = Append(connectLog, <<"call", 1>>)
            /\ pending' = pending \cup {1}
            /\ pc' = "listTools"
    /\ UNCHANGED << servers, tools, reported, unhandled, queryVars, loopEnd,
                    nCleanup, exitCode >>

\* listTools resolves: the tools are pushed, connectToServer returns and the
\* for loop goes on to the next entry, or to chatLoop after the last.
ListToolsReturn(list) ==
    /\ pc = "listTools"
    /\ reported' = Append(reported, list)
    /\ tools' = PushAll(tools, [i \in 1..Len(list) |-> ToTool(list[i])])
    /\ IF idx < servers
       THEN /\ idx' = idx + 1
            /\ connectLog' =
                   connectLog \o << <<"return", idx>>, <<"call", idx + 1>> >>
            /\ pending' = pending \cup {idx + 1}
            /\ pc' = "listTools"
       ELSE /\ connectLog' = Append(connectLog, <<"return", idx>>)
            /\ pc' = "read"
            /\ UNCHANGED << idx, pending >>
    /\ UNCHANGED << servers, unhandled, queryVars, loopEnd, nCleanup, exitCode >>

\* listTools rejects: connectToServer logs and rethrows, main's finally runs.
ListToolsFail ==
    /\ pc = "listTools"
    /\ connectLog' = Append(connectLog, <<"throw", idx>>)
    /\ loopEnd' = "startup"
    /\ MainFinally
    /\ UNCHANGED << servers, idx, tools, reported, pending, unhandled, queryVars,
                    exitCode >>

\* The un-awaited this.mcp.connect(transport) of server i settles.
HandshakeComplete(i) ==
    /\ pc # "exited"
    /\ i \in pending
    /\ pending' = pending \ {i}
    /\ UNCHANGED << startupVars, pc, unhandled, queryVars, loopEnd, nCleanup,
                    exitCode >>

HandshakeFail(i) ==
    /\ pc # "exited"
    /\ i \in pending
    /\ pending' = pending \ {i}
    /\ unhandled' = unhandled \cup {"connect"}
    /\ UNCHANGED << startupVars, pc, queryVars, loopEnd, nCleanup, exitCode >>

\* --------------------------------------------------------- processQuery
UserMessage(q) == [role |-> "user", content |-> q]

ToolMessageStringified(content, id) ==
    [role |-> "tool", content |-> JSONStringify(content), tool_call_id |-> id]

ToolMessage(content, id) ==
    [role |-> "tool", content |-> content, tool_call_id |-> id]

LastToolCall(r) == r.tool_calls.calls[Len(r.tool_calls.calls)]

\* response.choices[0].message.tool_calls[0]
FirstToolCall(r) == r.tool_calls.calls[1]

\* `[Calling tool ${functionName} with args ${JSON.stringify(functionArgs)}]`
TraceLine(name, args) ==
    CallingPrefix \o name \o WithArgs \o JSONStringify(args) \o CallingSuffix

\* An error escapes the loop body: chatLoop's catch logs it, its finally closes
\* readline, chatLoop returns and main's finally runs.
LoopError(err) ==
    /\ thrown' = err
    /\ loopEnd' = "error"
    /\ MainFinally

\* rl.question resolves with a line: "quit" leaves the loop, any other line
\* starts processQuery, which issues the first completion call.
ReadLine(l) ==
    /\ pc = "read"
    /\ line' = l
    /\ response' = NoResponse
    /\ finalText' = <<>>
    /\ resolved' = 0
    /\ toolCalls' = <<>>
    /\ answered' = FALSE
    /\ answer' = EmptyStr
    /\ result' = EmptyStr
    /\ secondResponse' = Null
    /\ thrown' = "none"
    /\ IF ToLowerCase(l) = QuitStr
       THEN /\ messages' = <<>>
            /\ completions' = <<>>
            /\ loopEnd' = "quit"
            /\ MainFinally
       ELSE /\ messages' = <<UserMessage(l)>>
            /\ completions' =
                   << [messages |-> messages', hasTools |-> TRUE,
                       tools |-> tools] >>
            /\ pc' = "first"
            /\ UNCHANGED << loopEnd, nCleanup >>
    /\ UNCHANGED << startupVars, pending, unhandled, exitCode >>

\* The first completion call resolves with message r.
FirstResponse(r) ==
    /\ pc = "first"
    /\ response' = r
    /\ resolved' = resolved + 1
    /\ IF ~r.tool_calls.present
       THEN \* no tool_calls: the content is the answer
            /\ finalText' = Append(finalText, OrEmpty(r.content))
            /\ answer' = Join(finalText', NewLine)
            /\ answered' = TRUE
            /\ pc' = "read"
            /\ UNCHANGED << toolCalls, thrown, loopEnd, nCleanup >>
       ELSE IF r.tool_calls.calls = <<>>
       THEN \* an empty array is truthy: tool_calls[0] is undefined and
            \* reading its .function throws a TypeError
            /\ LoopError("TypeError")
            /\ UNCHANGED << finalText, answer, answered, toolCalls >>
       ELSE LET toolCall == FirstToolCall(r)
                parsed == JSONParse(toolCall.function.arguments)
            IN
            IF ~parsed.ok
            THEN \* JSON.parse throws while the arguments of callTool are built
                 /\ LoopError("SyntaxError")
                 /\ UNCHANGED << finalText, answer, answered, toolCalls >>
            ELSE /\ toolCalls' =
                        Append(toolCalls, [name |-> toolCall.function.name,
                                           arguments |-> parsed.val])
                 /\ pc' = "tool"
                 /\ UNCHANGED << finalText, answer, answered, thrown, loopEnd,
                                 nCleanup >>
    /\ UNCHANGED << startupVars, pending, unhandled, line, messages,
                    completions, result, secondResponse, exitCode >>

\* A completion call rejects (network, authentication, rate limit).
CompletionFail ==
    /\ pc \in {"first", "second"}
    /\ LoopError("CompletionError")
    /\ UNCHANGED << startupVars, pending, unhandled, line, response, messages,
                    finalText, completions, resolved, toolCalls, answered, answer,
                    result, secondResponse, exitCode >>

\* callTool resolves: the trace line and the tool message are pushed and the
\* second completion call is issued, without tools.
CallToolReturn(res) ==
    /\ pc = "tool"
    /\ LET toolCall == FirstToolCall(response) IN
        /\ result' = res
        /\ finalText' =
              Append(finalText, TraceLine(toolCall.function.name,
                                          toolCall.function.arguments))
        /\ messages' = Append(messages, ToolMessage(res, toolCall.id))
    /\ completions' =
          Append(completions,
                 [messages |-> messages', hasTools |-> FALSE, tools |-> <<>>])
    /\ pc' = "second"
    /\ UNCHANGED << startupVars, pending, unhandled, line, response, resolved,
                    toolCalls, answered, answer, secondResponse, thrown, loopEnd,
                    nCleanup, exitCode >>

CallToolFail ==
    /\ pc = "tool"
    /\ LoopError("ToolError")
    /\ UNCHANGED << startupVars, pending, unhandled, line, response, messages,
                    finalText, completions, resolved, toolCalls, answered, answer,
                    result, secondResponse, exitCode >>

\* The second completion call resolves with content c.
SecondResponse(c) ==
    /\ pc = "second"
    /\ secondResponse' = c
    /\ resolved' = resolved + 1
    /\ finalText' = Append(finalText, OrEmpty(c))
    /\ answer' = Join(finalText', NewLine)
    /\ answered' = TRUE
    /\ pc' = "read"
    /\ UNCHANGED << startupVars, pending, unhandled, line, response, messages,
                    completions, toolCalls, result, thrown, loopEnd, nCleanup,
                    exitCode >>

\* ---------------------------------------------------------------- exit
\* mcp.close() resolves: cleanup returns and process.exit(0) runs.
CloseReturn ==
    /\ pc = "closing"
    /\ pc' = "exited"
    /\ exitCode' = 0
    /\ UNCHANGED << startupVars, pending, unhandled, queryVars, loopEnd,
                    nCleanup >>

\* mcp.close() rejects: cleanup throws out of main's finally, process.exit(0)
\* is skipped and the promise of main(), which nobody handles, rejects.
CloseFail ==
    /\ pc = "closing"
    /\ pc' = "rejected"
    /\ unhandled' = unhandled \cup {"main"}
    /\ UNCHANGED << startupVars, pending, queryVars, loopEnd, nCleanup,
                    exitCode >>

\* The runtime ends the process on an unhandled rejection, whatever main is
\* awaiting; when it does so relative to main's own steps is not determined.
UnhandledRejection ==
    /\ unhandled # {}
    /\ pc # "exited"
    /\ pc' = "exited"
    /\ exitCode' = 1
    /\ UNCHANGED << startupVars, pending, unhandled, queryVars, loopEnd,
                    nCleanup >>

Next ==
    \/ MainStart
    \/ \E list \in ToolLists : ListToolsReturn(list)
    \/ ListToolsFail
    \/ \E i \in 1..MaxServers : HandshakeComplete(i)
    \/ \E i \in 1..MaxServers : HandshakeFail(i)
    \/ \E l \in Lines : ReadLine(l)
    \/ \E r \in Responses : FirstResponse(r)
    \/ CompletionFail
    \/ \E res \in ToolResults : CallToolReturn(res)
    \/ CallToolFail
    \/ \E c \in Contents : SecondResponse(c)
    \/ CloseReturn
    \/ CloseFail
    \/ UnhandledRejection

Spec == Init /\ [][Next]_vars

\* The network and process calls that are outstanding.
Outstanding ==
    {<<"connect", i>> : i \in pending}
    \cup (IF pc = "listTools" THEN {<<"listTools", idx>>} ELSE {})
    \cup (IF pc \in {"first", "second"}
          THEN {<<"completion", Len(completions)>>} ELSE {})
    \cup (IF pc = "tool" THEN {<<"callTool", Len(toolCalls)>>} ELSE {})
    \cup (IF pc = "closing" THEN {<<"close", nCleanup>>} ELSE {})

\* ================================================================ claims
\* What the inputs are, stated without the code's own conversions.
ParseableArgs == {ArgsObj, ArgsEmpty}

ExpectedArguments(a) ==
    IF a = ArgsObj
    THEN JObject(<< << <<"a">>, JNumber(<<"1">>) >> >>)
    ELSE JObject(<<>>)

RequestedCalls == response.tool_calls.calls

HasToolCall == response.tool_calls.present /\ RequestedCalls # <<>>

NoToolCall == ~response.tool_calls.present \/ RequestedCalls = <<>>

CaseInsensitiveQuit(l) ==
    /\ Len(l) = 4
    /\ l[1] \in {"q", "Q"}
    /\ l[2] \in {"u", "U"}
    /\ l[3] \in {"i", "I"}
    /\ l[4] \in {"t", "T"}

RECURSIVE SumLen(_)
SumLen(lists) ==
    IF lists = <<>> THEN 0 ELSE Len(Head(lists)) + SumLen(Tail(lists))

RECURSIVE SequentialLog(_)
SequentialLog(n) ==
    IF n = 0 THEN <<>>
    ELSE SequentialLog(n - 1) \o << <<"call", n>>, <<"return", n>> >>

InChatLoop == pc \in {"read", "first", "tool", "second"}

\* C1: once the first response carries k >= 1 tool calls and the arguments of
\* the one at index 0 parse, callTool has been invoked exactly once for the
\* query, with the name and the parsed arguments of the call at index 0; the
\* calls at index 1..k-1 cause no callTool.
C1_OnlyFirstToolCallExecuted ==
    (HasToolCall /\ RequestedCalls[1].function.arguments \in ParseableArgs)
    => toolCalls =
         << [ name |-> RequestedCalls[1].function.name,
              arguments |->
                  ExpectedArguments(RequestedCalls[1].function.arguments) ] >>

C1_Witness ==
    /\ answered
    /\ Len(RequestedCalls) = 2
    /\ RequestedCalls[1].function.name # RequestedCalls[2].function.name
    /\ RequestedCalls[1].function.arguments = ArgsObj
    /\ RequestedCalls[2].function.arguments = ArgsEmpty
    /\ Len(toolCalls) = 1

\* C2 as stated: the conversation of the second completion call has, as its
\* last-but-one message, a tool message with the tool result as content and the
\* id of the executed tool call as tool_call_id.
C2_ToolMessageLastButOne ==
    Len(completions) = 2
    => LET conv == completions[2].messages IN
       /\ Len(conv) >= 2
       /\ conv[Len(conv) - 1].role = "tool"
       /\ conv[Len(conv) - 1].content = result
       /\ conv[Len(conv) - 1].tool_call_id = RequestedCalls[1].id

\* C2 amended: when the first response contains a tool call (and the tool call
\* succeeds) a second completion call is issued, and the LAST message of its
\* conversation is a tool message with the tool result as content and the id
\* of the executed tool call as tool_call_id.
C2_ToolMessageLast ==
    /\ (pc = "second" \/ (answered /\ HasToolCall)) => Len(completions) = 2
    /\ Len(completions) = 2
       => LET conv == completions[2].messages IN
          /\ HasToolCall
          /\ conv[Len(conv)].role = "tool"
          /\ conv[Len(conv)].content = result
          /\ conv[Len(conv)].tool_call_id = RequestedCalls[1].id

C2_Witness ==
    /\ pc = "second"
    /\ Len(RequestedCalls) = 2
    /\ Len(completions) = 2
    /\ result = <<"r", "2">>

C4_NoToolCallReturnsFirstText ==
    (resolved >= 1 /\ NoToolCall)
    => /\ answered
       /\ answer = OrEmpty(response.content)
       /\ Len(completions) = 1
       /\ toolCalls = <<>>

\* C5: once the first response has arrived with a first tool call whose
\* arguments are not valid JSON, processQuery has failed with a parse error,
\* without any callTool and without a second completion call.
C5_BadArgumentsNoToolCall ==
    (resolved >= 1 /\ HasToolCall
        /\ RequestedCalls[1].function.arguments \notin ParseableArgs)
    => /\ thrown = "SyntaxError"
       /\ ~answered
       /\ toolCalls = <<>>
       /\ Len(completions) = 1

C5_Witness ==
    /\ resolved = 1
    /\ Len(RequestedCalls) = 2
    /\ RequestedCalls[1].function.arguments = ArgsBad
    /\ RequestedCalls[2].function.arguments = ArgsObj
    /\ loopEnd = "error"
    /\ pc = "exited"

\* C6: whenever the process has exited, by quit, by an error in the loop or
\* after a connection failure at startup, cleanup was invoked exactly once.
C6_CleanupExactlyOnce == pc = "exited" => nCleanup = 1

\* C7: the process exits with status 0 however it terminated, also when the
\* cleanup operation failed.  (Stated for the runs in which no connect
\* handshake was rejected, so that the violation is the cleanup failure's own.)
C7_AlwaysExitsZero ==
    (pc = "exited" /\ "connect" \notin unhandled) => exitCode = 0

\* C8: when every connection succeeded and the chat loop runs, connectToServer
\* was called once per configured server, in order, each call returning before
\* the next, and the catalog holds every reported tool, in connection order:
\* its size is the sum of the reported tool counts.
C8_SequentialConnectAndMergedCatalog ==
    InChatLoop
    => /\ connectLog = SequentialLog(servers)
       /\ Len(reported) = servers
       /\ Len(tools) = SumLen(reported)
       /\ \A i \in 1..Len(reported) : \A j \in 1..Len(reported[i]) :
             tools[SumLen(SubSeq(reported, 1, i - 1)) + j].name
                 = reported[i][j].name

C8_Witness ==
    /\ pc = "read"
    /\ servers = MaxServers
    /\ Len(reported[1]) = 2
    /\ Len(reported[servers]) = 2
    /\ Len(tools) >= 4

\* C9: at most one network or process call is outstanding at any time, and
\* listTools of a server is outstanding only once its connect handshake is over.
C9_OneOutstandingCall ==
    /\ Cardinality(Outstanding) <= 1
    /\ pc = "listTools" => idx \notin pending

\* C10: once a line that equals "quit" up to letter case has been read, the
\* loop is over: the run is in shutdown and no completion call and no callTool
\* was issued for that line, nor is any issued later.
C10_QuitEndsLoop ==
    CaseInsensitiveQuit(line)
    => /\ pc \in {"closing", "rejected", "exited"}
       /\ loopEnd = "quit"
       /\ completions = <<>>
       /\ toolCalls = <<>>
       /\ nCleanup = 1

C10_Witness ==
    /\ line = <<"Q", "U", "I", "T">>
    /\ pc = "exited"
    /\ exitCode = 0

====
